---------------------------- MODULE Spec2Model ----------------------------
(***************************************************************************)
(* A model of Manifest2Lua (src/main.py): the mirror fetcher `get`, the    *)
(* per-file step `get_manifest`, the repository loop                        *)
(* `download_and_process`, the script generator `parse_vdf_to_lua` and the *)
(* tail of `main` that writes the script.                                   *)
(*                                                                          *)
(* Text is a sequence of one-character strings, so that startswith,        *)
(* endswith, slicing, split and join are computed as Python computes them. *)
(*                                                                         *)
(* The specifications share the definitions:                               *)
(*   SpecNorm download_and_process from its call to its branch queries,    *)
(*            for identifiers drawn from a bounded set of texts;           *)
(*   SpecLive Spec with the fairness of the task's steps;                  *)
(*   SpecGen  one call of parse_vdf_to_lua on depot records and a          *)
(*            directory drawn from bounded sets;                           *)
(*   SpecGet  successive calls of get, one step per mirror request, with   *)
(*            the log of every response the current call received;         *)
(*   Spec     one run of main from the call of download_and_process to the *)
(*            script, one step per metadata query, per call of get and per *)
(*            file written. The code is a single cooperative task, so what *)
(*            a call of get does between its first request and its return  *)
(*            is one step: GetRun applies get to the responses in turn.    *)
(***************************************************************************)
EXTENDS Naturals, Sequences, FiniteSets, TLC

VARIABLES
    pc,                \* where the task is: see the actions
    exc,               \* the exception that ended the run ("" while none)
    app_id,            \* download_and_process: app_id (raw, then canonical)
    save_dir,          \* download_and_process: save_dir ("" before line 136)
    files,             \* the file system under save_dir: name -> content
    repo,              \* download_and_process: index of `repo` in repos
    tree,              \* download_and_process: r2_json['tree'], as paths
    item,              \* download_and_process: index of `item` in tree
    vdf,               \* download_and_process: index of vdf_path in vdf_paths
    collected_depots,  \* download_and_process: collected_depots
    path,              \* get / get_manifest: path
    retry,             \* get: retry
    url,               \* get: index of `url` in url_list
    content,           \* get_manifest: content (what get returned last)
    buffer,            \* get_manifest: bytes f.write gave the file object f
                       \*   that are not in the file yet (None: there are none)
    result,            \* main: (collected_depots, save_dir) once returned
    appid,             \* main: appid
    lua_script,        \* main: lua_script (<< >> before line 225)
    log,               \* history: the requests made (SpecGet: by the current get,
                       \*   with the responses; else: the branch urls asked for)
    queried,           \* history: repositories whose branch was queried
    requested,         \* history: the paths requested from this repository
    written,           \* history: names written by get_manifest in this run
    resp,              \* history: the last response received
    done,              \* history: per tree item of this repo, its outcome
    yielded            \* history: repositories whose key file gave records

vars == << pc, exc, app_id, save_dir, files, repo, tree, item, vdf,
           collected_depots, path, retry, url, content, buffer, result,
           appid, lua_script, log, queried, requested, written, resp, done,
           yielded >>

---------------------------------------------------------------------------
(* Text                                                                    *)

StartsWith(s, p) == Len(s) >= Len(p) /\ SubSeq(s, 1, Len(p)) = p

EndsWith(s, p) == Len(s) >= Len(p) /\ SubSeq(s, Len(s) - Len(p) + 1, Len(s)) = p

ManifestSuffix == << ".", "m", "a", "n", "i", "f", "e", "s", "t" >>

KeyVdf == << "K", "e", "y", ".", "v", "d", "f" >>

ConfigVdf == << "c", "o", "n", "f", "i", "g", ".", "v", "d", "f" >>

\* The digits U+0030..U+0039 by value: the texts of the depot ids and of
\* the keys are written with them.
DigitSeq == << "0", "1", "2", "3", "4", "5", "6", "7", "8", "9" >>

\* The decimal digits beyond U+007F, each written by its code point: the
\* digits of the other scripts, the fullwidth and the mathematical ones.
DigitsAbove7F ==
    { "U+0660", "U+0661", "U+0662", "U+0663", "U+0664", "U+0665",
      "U+0666", "U+0667", "U+0668", "U+0669", "U+06F0", "U+06F1",
      "U+06F2", "U+06F3", "U+06F4", "U+06F5", "U+06F6", "U+06F7",
      "U+06F8", "U+06F9", "U+07C0", "U+07C1", "U+07C2", "U+07C3",
      "U+07C4", "U+07C5", "U+07C6", "U+07C7", "U+07C8", "U+07C9",
      "U+0966", "U+0967", "U+0968", "U+0969", "U+096A", "U+096B",
      "U+096C", "U+096D", "U+096E", "U+096F", "U+09E6", "U+09E7",
      "U+09E8", "U+09E9", "U+09EA", "U+09EB", "U+09EC", "U+09ED",
      "U+09EE", "U+09EF", "U+0A66", "U+0A67", "U+0A68", "U+0A69",
      "U+0A6A", "U+0A6B", "U+0A6C", "U+0A6D", "U+0A6E", "U+0A6F",
      "U+0AE6", "U+0AE7", "U+0AE8", "U+0AE9", "U+0AEA", "U+0AEB",
      "U+0AEC", "U+0AED", "U+0AEE", "U+0AEF", "U+0B66", "U+0B67",
      "U+0B68", "U+0B69", "U+0B6A", "U+0B6B", "U+0B6C", "U+0B6D",
      "U+0B6E", "U+0B6F", "U+0BE6", "U+0BE7", "U+0BE8", "U+0BE9",
      "U+0BEA", "U+0BEB", "U+0BEC", "U+0BED", "U+0BEE", "U+0BEF",
      "U+0C66", "U+0C67", "U+0C68", "U+0C69", "U+0C6A", "U+0C6B",
      "U+0C6C", "U+0C6D", "U+0C6E", "U+0C6F", "U+0CE6", "U+0CE7",
      "U+0CE8", "U+0CE9", "U+0CEA", "U+0CEB", "U+0CEC", "U+0CED",
      "U+0CEE", "U+0CEF", "U+0D66", "U+0D67", "U+0D68", "U+0D69",
      "U+0D6A", "U+0D6B", "U+0D6C", "U+0D6D", "U+0D6E", "U+0D6F",
      "U+0DE6", "U+0DE7", "U+0DE8", "U+0DE9", "U+0DEA", "U+0DEB",
      "U+0DEC", "U+0DED", "U+0DEE", "U+0DEF", "U+0E50", "U+0E51",
      "U+0E52", "U+0E53", "U+0E54", "U+0E55", "U+0E56", "U+0E57",
      "U+0E58", "U+0E59", "U+0ED0", "U+0ED1", "U+0ED2", "U+0ED3",
      "U+0ED4", "U+0ED5", "U+0ED6", "U+0ED7", "U+0ED8", "U+0ED9",
      "U+0F20", "U+0F21", "U+0F22", "U+0F23", "U+0F24", "U+0F25",
      "U+0F26", "U+0F27", "U+0F28", "U+0F29", "U+1040", "U+1041",
      "U+1042", "U+1043", "U+1044", "U+1045", "U+1046", "U+1047",
      "U+1048", "U+1049", "U+1090", "U+1091", "U+1092", "U+1093",
      "U+1094", "U+1095", "U+1096", "U+1097", "U+1098", "U+1099",
      "U+17E0", "U+17E1", "U+17E2", "U+17E3", "U+17E4", "U+17E5",
      "U+17E6", "U+17E7", "U+17E8", "U+17E9", "U+1810", "U+1811",
      "U+1812", "U+1813", "U+1814", "U+1815", "U+1816", "U+1817",
      "U+1818", "U+1819", "U+1946", "U+1947", "U+1948", "U+1949",
      "U+194A", "U+194B", "U+194C", "U+194D", "U+194E", "U+194F",
      "U+19D0", "U+19D1", "U+19D2", "U+19D3", "U+19D4", "U+19D5",
      "U+19D6", "U+19D7", "U+19D8", "U+19D9", "U+1A80", "U+1A81",
      "U+1A82", "U+1A83", "U+1A84", "U+1A85", "U+1A86", "U+1A87",
      "U+1A88", "U+1A89", "U+1A90", "U+1A91", "U+1A92", "U+1A93",
      "U+1A94", "U+1A95", "U+1A96", "U+1A97", "U+1A98", "U+1A99",
      "U+1B50", "U+1B51", "U+1B52", "U+1B53", "U+1B54", "U+1B55",
      "U+1B56", "U+1B57", "U+1B58", "U+1B59", "U+1BB0", "U+1BB1",
      "U+1BB2", "U+1BB3", "U+1BB4", "U+1BB5", "U+1BB6", "U+1BB7",
      "U+1BB8", "U+1BB9", "U+1C40", "U+1C41", "U+1C42", "U+1C43",
      "U+1C44", "U+1C45", "U+1C46", "U+1C47", "U+1C48", "U+1C49",
      "U+1C50", "U+1C51", "U+1C52", "U+1C53", "U+1C54", "U+1C55",
      "U+1C56", "U+1C57", "U+1C58", "U+1C59", "U+A620", "U+A621",
      "U+A622", "U+A623", "U+A624", "U+A625", "U+A626", "U+A627",
      "U+A628", "U+A629", "U+A8D0", "U+A8D1", "U+A8D2", "U+A8D3",
      "U+A8D4", "U+A8D5", "U+A8D6", "U+A8D7", "U+A8D8", "U+A8D9",
      "U+A900", "U+A901", "U+A902", "U+A903", "U+A904", "U+A905",
      "U+A906", "U+A907", "U+A908", "U+A909", "U+A9D0", "U+A9D1",
      "U+A9D2", "U+A9D3", "U+A9D4", "U+A9D5", "U+A9D6", "U+A9D7",
      "U+A9D8", "U+A9D9", "U+A9F0", "U+A9F1", "U+A9F2", "U+A9F3",
      "U+A9F4", "U+A9F5", "U+A9F6", "U+A9F7", "U+A9F8", "U+A9F9",
      "U+AA50", "U+AA51", "U+AA52", "U+AA53", "U+AA54", "U+AA55",
      "U+AA56", "U+AA57", "U+AA58", "U+AA59", "U+ABF0", "U+ABF1",
      "U+ABF2", "U+ABF3", "U+ABF4", "U+ABF5", "U+ABF6", "U+ABF7",
      "U+ABF8", "U+ABF9", "U+FF10", "U+FF11", "U+FF12", "U+FF13",
      "U+FF14", "U+FF15", "U+FF16", "U+FF17", "U+FF18", "U+FF19",
      "U+104A0", "U+104A1", "U+104A2", "U+104A3", "U+104A4", "U+104A5",
      "U+104A6", "U+104A7", "U+104A8", "U+104A9", "U+10D30", "U+10D31",
      "U+10D32", "U+10D33", "U+10D34", "U+10D35", "U+10D36", "U+10D37",
      "U+10D38", "U+10D39", "U+11066", "U+11067", "U+11068", "U+11069",
      "U+1106A", "U+1106B", "U+1106C", "U+1106D", "U+1106E", "U+1106F",
      "U+110F0", "U+110F1", "U+110F2", "U+110F3", "U+110F4", "U+110F5",
      "U+110F6", "U+110F7", "U+110F8", "U+110F9", "U+11136", "U+11137",
      "U+11138", "U+11139", "U+1113A", "U+1113B", "U+1113C", "U+1113D",
      "U+1113E", "U+1113F", "U+111D0", "U+111D1", "U+111D2", "U+111D3",
      "U+111D4", "U+111D5", "U+111D6", "U+111D7", "U+111D8", "U+111D9",
      "U+112F0", "U+112F1", "U+112F2", "U+112F3", "U+112F4", "U+112F5",
      "U+112F6", "U+112F7", "U+112F8", "U+112F9", "U+11450", "U+11451",
      "U+11452", "U+11453", "U+11454", "U+11455", "U+11456", "U+11457",
      "U+11458", "U+11459", "U+114D0", "U+114D1", "U+114D2", "U+114D3",
      "U+114D4", "U+114D5", "U+114D6", "U+114D7", "U+114D8", "U+114D9",
      "U+11650", "U+11651", "U+11652", "U+11653", "U+11654", "U+11655",
      "U+11656", "U+11657", "U+11658", "U+11659", "U+116C0", "U+116C1",
      "U+116C2", "U+116C3", "U+116C4", "U+116C5", "U+116C6", "U+116C7",
      "U+116C8", "U+116C9", "U+11730", "U+11731", "U+11732", "U+11733",
      "U+11734", "U+11735", "U+11736", "U+11737", "U+11738", "U+11739",
      "U+118E0", "U+118E1", "U+118E2", "U+118E3", "U+118E4", "U+118E5",
      "U+118E6", "U+118E7", "U+118E8", "U+118E9", "U+11950", "U+11951",
      "U+11952", "U+11953", "U+11954", "U+11955", "U+11956", "U+11957",
      "U+11958", "U+11959", "U+11C50", "U+11C51", "U+11C52", "U+11C53",
      "U+11C54", "U+11C55", "U+11C56", "U+11C57", "U+11C58", "U+11C59",
      "U+11D50", "U+11D51", "U+11D52", "U+11D53", "U+11D54", "U+11D55",
      "U+11D56", "U+11D57", "U+11D58", "U+11D59", "U+11DA0", "U+11DA1",
      "U+11DA2", "U+11DA3", "U+11DA4", "U+11DA5", "U+11DA6", "U+11DA7",
      "U+11DA8", "U+11DA9", "U+16A60", "U+16A61", "U+16A62", "U+16A63",
      "U+16A64", "U+16A65", "U+16A66", "U+16A67", "U+16A68", "U+16A69",
      "U+16AC0", "U+16AC1", "U+16AC2", "U+16AC3", "U+16AC4", "U+16AC5",
      "U+16AC6", "U+16AC7", "U+16AC8", "U+16AC9", "U+16B50", "U+16B51",
      "U+16B52", "U+16B53", "U+16B54", "U+16B55", "U+16B56", "U+16B57",
      "U+16B58", "U+16B59", "U+1D7CE", "U+1D7CF", "U+1D7D0", "U+1D7D1",
      "U+1D7D2", "U+1D7D3", "U+1D7D4", "U+1D7D5", "U+1D7D6", "U+1D7D7",
      "U+1D7D8", "U+1D7D9", "U+1D7DA", "U+1D7DB", "U+1D7DC", "U+1D7DD",
      "U+1D7DE", "U+1D7DF", "U+1D7E0", "U+1D7E1", "U+1D7E2", "U+1D7E3",
      "U+1D7E4", "U+1D7E5", "U+1D7E6", "U+1D7E7", "U+1D7E8", "U+1D7E9",
      "U+1D7EA", "U+1D7EB", "U+1D7EC", "U+1D7ED", "U+1D7EE", "U+1D7EF",
      "U+1D7F0", "U+1D7F1", "U+1D7F2", "U+1D7F3", "U+1D7F4", "U+1D7F5",
      "U+1D7F6", "U+1D7F7", "U+1D7F8", "U+1D7F9", "U+1D7FA", "U+1D7FB",
      "U+1D7FC", "U+1D7FD", "U+1D7FE", "U+1D7FF", "U+1E140", "U+1E141",
      "U+1E142", "U+1E143", "U+1E144", "U+1E145", "U+1E146", "U+1E147",
      "U+1E148", "U+1E149", "U+1E2F0", "U+1E2F1", "U+1E2F2", "U+1E2F3",
      "U+1E2F4", "U+1E2F5", "U+1E2F6", "U+1E2F7", "U+1E2F8", "U+1E2F9",
      "U+1E950", "U+1E951", "U+1E952", "U+1E953", "U+1E954", "U+1E955",
      "U+1E956", "U+1E957", "U+1E958", "U+1E959", "U+1FBF0", "U+1FBF1",
      "U+1FBF2", "U+1FBF3", "U+1FBF4", "U+1FBF5", "U+1FBF6", "U+1FBF7",
      "U+1FBF8", "U+1FBF9" }

\* The characters str.isdecimal() holds for.
Digits == { DigitSeq[i] : i \in 1..Len(DigitSeq) } \cup DigitsAbove7F

---------------------------------------------------------------------------
(* Program constants                                                       *)

repos == << "ManifestHub/ManifestHub", "hansaes/ManifestAutoUpdate",
            "Auiowu/ManifestAutoUpdate", "tymolu233/ManifestAutoUpdate",
            "qwq-xinkeng/awaqwqmain" >>

url_list == << "gcore.jsdelivr.net", "fastly.jsdelivr.net", "cdn.jsdelivr.net",
               "ghproxy.org", "raw.dgithub.xyz" >>

RetryInit == 3

vdf_paths == << KeyVdf, ConfigVdf >>

---------------------------------------------------------------------------
(* Values                                                                  *)

\* What get returns when every attempt failed (line 93).
None == [ kind |-> "None" ]

\* The parsed form of a file that is no key document.
NoText == [ parse |-> "none", hasDepots |-> FALSE, depots |-> << >> ]

\* The bytes of a response body: `of` is the repository they were published
\* in (0: none, or an earlier run), `name` the path, `text` what vdf.loads
\* makes of them, `chars` the text of a script.
Bytes(r, p, t) ==
    [ kind |-> "bytes", of |-> r, name |-> p, text |-> t, chars |-> << >> ]

EmptyBytes == Bytes(0, << >>, NoText)

ManifestBytes(r, p) == Bytes(r, p, NoText)

\* Python truthiness of `content` (lines 108, 117): None and b'' are false.
Truthy(c) == c # None /\ c # EmptyBytes

NoResp == [ op |-> "none", kind |-> "none", body |-> None ]

NoResult == [ returned |-> FALSE, depots |-> << >>, dir |-> << >> ]

---------------------------------------------------------------------------
(* get (lines 70-93): one request of the retry loop                        *)

\* The loop position after a request that failed: the next url of the
\* round, else the first url of the next round; retry = 0 ends the loop.
GetAdvance(rt, u) ==
    IF u < Len(url_list) THEN [ retry |-> rt, url |-> u + 1 ]
                         ELSE [ retry |-> rt - 1, url |-> 1 ]

\* Variants of get: the body of a 200 is not returned; every exception is
\* caught like an aiohttp.ClientError.
get_ReturnsNothing(rt, u, r) ==
    CASE r.kind = "ok" -> [ state |-> "return", value |-> None, retry |-> rt, url |-> u ]
      [] r.kind \in { "status", "ClientError" } ->
            LET n == GetAdvance(rt, u)
            IN  IF n.retry = 0
                THEN [ state |-> "return", value |-> None, retry |-> 0, url |-> n.url ]
                ELSE [ state |-> "loop", value |-> None, retry |-> n.retry, url |-> n.url ]
      [] OTHER -> [ state |-> "raise", value |-> None, retry |-> rt, url |-> u ]

get_CatchesAll(rt, u, r) ==
    CASE r.kind = "ok" -> [ state |-> "return", value |-> r.body, retry |-> rt, url |-> u ]
      [] OTHER ->
            LET n == GetAdvance(rt, u)
            IN  IF n.retry = 0
                THEN [ state |-> "return", value |-> None, retry |-> 0, url |-> n.url ]
                ELSE [ state |-> "loop", value |-> None, retry |-> n.retry, url |-> n.url ]

\* What get does with the response r to the request to url_list[u] in a
\* round with `rt` rounds left: return the body of a 200 (line 85), go on
\* after another status (line 87) or an aiohttp.ClientError (line 89),
\* return None when the rounds are used up (line 93); any other exception
\* is not caught and leaves get.
get(rt, u, r) ==
    CASE r.kind = "ok" -> [ state |-> "return", value |-> r.body, retry |-> rt, url |-> u ]
      [] r.kind \in { "status", "ClientError" } ->
            LET n == GetAdvance(rt, u)
            IN  IF n.retry = 0
                THEN [ state |-> "return", value |-> None, retry |-> 0, url |-> n.url ]
                ELSE [ state |-> "loop", value |-> None, retry |-> n.retry, url |-> n.url ]
      [] OTHER -> [ state |-> "raise", value |-> None, retry |-> rt, url |-> u ]

\* A schedule of responses: the first `fails` requests fail, by a status
\* other than 200 and by an aiohttp.ClientError in turn, and every later
\* one is answered by `last`.
ResponseAt(s, i) ==
    IF i > s.fails THEN s.last
    ELSE [ op |-> "mirror", body |-> None,
           kind |-> IF i % 2 = 1 THEN "status" ELSE "ClientError" ]

\* One call of get under schedule s, from the loop position (rt, u) at its
\* i-th request on: how it ends, after which response and how many requests.
RECURSIVE GetRun(_, _, _, _)
GetRun(rt, u, s, i) ==
    LET r == ResponseAt(s, i)
        g == get(rt, u, r)
    IN  IF g.state = "loop" THEN GetRun(g.retry, g.url, s, i + 1)
        ELSE [ state |-> g.state, value |-> g.value, last |-> r, n |-> i ]

---------------------------------------------------------------------------
(* Key documents (lines 119-121)                                           *)

\* A variant: an entry without a DecryptionKey is passed over.
KeyExtract_Lenient(t) ==
    IF t.parse # "ok" THEN [ exc |-> t.parse, depots |-> << >> ]
    ELSE IF ~t.hasDepots THEN [ exc |-> "", depots |-> << >> ]
    ELSE LET HasKey(e) == e.hasKey
             ds == SelectSeq(t.depots, HasKey)
         IN  [ exc |-> "",
               depots |-> [ i \in 1..Len(ds) |-> << ds[i].id, ds[i].key >> ] ]

\* vdf.loads(content.decode()) and the loop over depots_config['depots']:
\* the records in the document's order, or the exception raised.
KeyExtract(t) ==
    IF t.parse # "ok" THEN [ exc |-> t.parse, depots |-> << >> ]
    ELSE IF ~t.hasDepots THEN [ exc |-> "KeyError", depots |-> << >> ]
    ELSE IF \E i \in 1..Len(t.depots) : ~t.depots[i].hasKey
         THEN [ exc |-> "KeyError", depots |-> << >> ]
    ELSE [ exc |-> "",
           depots |-> [ i \in 1..Len(t.depots) |->
                          << t.depots[i].id, t.depots[i].key >> ] ]


---------------------------------------------------------------------------
(* The environment: what the metadata API and the mirrors may answer       *)

MaxTree == 2

MaxDepots == 2

GameName == << "T", "F", "2" >>

AppIds == { << "4", "4", "0" >> }

Manifest1 == << "1", "_", "7" >> \o ManifestSuffix

Manifest2 == << "2", "_", "8" >> \o ManifestSuffix

ManifestNames == { Manifest1, Manifest2 }

TreePaths == ManifestNames \cup { KeyVdf }

\* The file listings a tree query may return: distinct paths, as in a git tree.
Trees ==
    { t \in UNION { [ 1..n -> TreePaths ] : n \in 0..MaxTree } :
        \A i, j \in 1..Len(t) : i # j => t[i] # t[j] }

DepotIds == { << DigitSeq[d + 1] >> : d \in 1..MaxDepots }

\* The decryption key repository r publishes.
KeyOf(r) == << "k", DigitSeq[r + 1] >>

\* The entries of a depots section: with a DecryptionKey, and one without.
DepotEntries(r) ==
    { [ id |-> d, hasKey |-> TRUE, key |-> KeyOf(r) ] : d \in DepotIds }
    \cup { [ id |-> << DigitSeq[2] >>, hasKey |-> FALSE, key |-> << >> ] }

\* The key documents a mirror may deliver for repository r: text that does
\* not parse, a document without a "depots" section, and documents whose
\* depots section holds up to MaxDepots entries with distinct ids.
KeyTexts(r) ==
    { [ parse |-> "SyntaxError", hasDepots |-> FALSE, depots |-> << >> ],
      [ parse |-> "ok", hasDepots |-> FALSE, depots |-> << >> ] }
    \cup
    { [ parse |-> "ok", hasDepots |-> TRUE, depots |-> ds ] :
        ds \in { t \in UNION { [ 1..n -> DepotEntries(r) ] : n \in 0..MaxDepots } :
                   \A i, j \in 1..Len(t) : i # j => t[i].id # t[j].id } }

\* The bodies a mirror may deliver with status 200 for path p of repository r.
Bodies(r, p) ==
    IF p \in { KeyVdf, ConfigVdf }
    THEN { EmptyBytes } \cup { Bytes(r, p, t) : t \in KeyTexts(r) }
    ELSE { EmptyBytes, ManifestBytes(r, p) }

Response(kind, body) == [ op |-> "mirror", kind |-> kind, body |-> body ]

\* A response that ends get: a 200 with its body, an exception that is no
\* aiohttp.ClientError (asyncio.TimeoutError), or the user's interrupt.
LastResponses(r, p) ==
    { Response("ok", b) : b \in Bodies(r, p) }
    \cup { Response(k, None) : k \in { "TimeoutError", "KeyboardInterrupt" } }

\* How many failed requests come before the last response: all but one of
\* a round, and all but one of the requests get makes.
FailCounts == { Len(url_list) - 1, RetryInit * Len(url_list) - 1 }

\* The schedules of one call of get: the first response ends it, or some
\* requests fail first, or every request fails.
Schedules(r, p) ==
    { [ fails |-> n, last |-> l ] :
        n \in { 0 } \cup FailCounts, l \in LastResponses(r, p) }
    \cup
    { [ fails |-> RetryInit * Len(url_list), last |-> Response("status", None) ] }

\* A file left in the directory by an earlier run, whatever it holds: the
\* run asks only whether it exists (line 103).
OldBytes(p) == ManifestBytes(0, p)

\* The file aiofiles.open(save_path, 'wb') has made for path p of
\* repository r before anything is written to it (line 111): no bytes.
EmptyFile(r, p) ==
    [ kind |-> "empty", of |-> r, name |-> p, text |-> NoText, chars |-> << >> ]

---------------------------------------------------------------------------
(* Control: the locals of download_and_process, get_manifest and get       *)

Ctl ==
    [ pc |-> pc, exc |-> exc, repo |-> repo, tree |-> tree, item |-> item,
      vdf |-> vdf, collected_depots |-> collected_depots, path |-> path,
      result |-> result, done |-> done, requested |-> requested,
      yielded |-> yielded ]

Set(k) ==
    /\ pc' = k.pc
    /\ exc' = k.exc
    /\ repo' = k.repo
    /\ tree' = k.tree
    /\ item' = k.item
    /\ vdf' = k.vdf
    /\ collected_depots' = k.collected_depots
    /\ path' = k.path
    /\ result' = k.result
    /\ done' = k.done
    /\ requested' = k.requested
    /\ yielded' = k.yielded

\* get is about to be called for path p (lines 107, 116).
StartGet(k, p) == [ k EXCEPT !.pc = "get", !.path = p ]

\* The locals of one iteration of `for repo in repos`, before it assigns
\* them: a finished iteration's values are never read again.
NoLocals(k) ==
    [ k EXCEPT !.tree = << >>, !.item = 0, !.vdf = 0, !.done = << >>,
               !.path = << >>, !.requested = { } ]

\* An exception leaves get_manifest (line 126 re-raises it) and then
\* download_and_process, where nothing catches one.
Raise(k, e) == [ k EXCEPT !.pc = "raised", !.exc = e ]

\* return ..., save_dir (lines 173, 178).
Return(k, c, dir) ==
    [ k EXCEPT !.pc = "returned",
               !.result = [ returned |-> TRUE, depots |-> c, dir |-> dir ] ]

\* A variant: after the last repository the search begins again.
NextRepo_Restarts(k, dir) ==
    IF k.repo < Len(repos)
    THEN [ NoLocals(k) EXCEPT !.pc = "branch", !.repo = k.repo + 1 ]
    ELSE [ NoLocals(k) EXCEPT !.pc = "branch", !.repo = 1 ]

\* A variant: a repository that is not found ends the search.
NextRepo_Stops(k, dir) == Return(k, << >>, dir)

\* The end of the body of `for repo in repos` (lines 175-178).
NextRepo(k, dir) ==
    IF k.repo < Len(repos)
    THEN [ NoLocals(k) EXCEPT !.pc = "branch", !.repo = k.repo + 1 ]
    ELSE Return(k, << >>, dir)

\* A variant: line 173 does not return, and the loop goes on.
EndRepo_NoReturn(k, dir) == NextRepo(k, dir)

\* Lines 170-173.
EndRepo(k, dir) ==
    IF k.collected_depots # << >>
    THEN Return(k, k.collected_depots, dir)
    ELSE NextRepo(k, dir)

\* A variant: no check that the file exists (line 103).
RECURSIVE Manifests_NoExistsCheck(_, _, _, _)
Manifests_NoExistsCheck(k, i, fs, dir) ==
    IF i > Len(k.tree) THEN EndRepo(k, dir)
    ELSE IF ~EndsWith(k.tree[i], ManifestSuffix)
         THEN Manifests_NoExistsCheck([ k EXCEPT !.done[i] = "ignored" ], i + 1, fs, dir)
    ELSE StartGet([ k EXCEPT !.item = i ], k.tree[i])

\* Lines 165-168 with 100-107, from tree item i on, up to the next await:
\* an entry that is no manifest is passed over, a manifest whose file exists
\* is skipped, and the first other manifest is requested.
RECURSIVE Manifests(_, _, _, _)
Manifests(k, i, fs, dir) ==
    IF i > Len(k.tree) THEN EndRepo(k, dir)
    ELSE IF ~EndsWith(k.tree[i], ManifestSuffix)
         THEN Manifests([ k EXCEPT !.done[i] = "ignored" ], i + 1, fs, dir)
    ELSE IF k.tree[i] \in DOMAIN fs
         THEN Manifests([ k EXCEPT !.done[i] = "skipped" ], i + 1, fs, dir)
    ELSE StartGet([ k EXCEPT !.item = i ], k.tree[i])

\* A variant of AfterVdf: with records retrieve returns at once, before the
\* loop over the tree.
AfterVdf_ReturnsAtOnce(k, vdf_result, fs, dir) ==
    IF vdf_result # << >>
    THEN EndRepo([ k EXCEPT !.collected_depots = @ \o vdf_result,
                            !.yielded = @ \cup { k.repo } ], dir)
    ELSE IF k.vdf < Len(vdf_paths)
         THEN StartGet([ k EXCEPT !.vdf = k.vdf + 1 ], vdf_paths[k.vdf + 1])
    ELSE Manifests(k, 1, fs, dir)

\* A variant of AfterVdf: no break at line 162, the records of config.vdf
\* are added to those of Key.vdf.
AfterVdf_NoBreak(k, vdf_result, fs, dir) ==
    LET k1 == IF vdf_result # << >>
              THEN [ k EXCEPT !.collected_depots = @ \o vdf_result,
                              !.yielded = @ \cup { k.repo } ]
              ELSE k
    IN  IF k.vdf < Len(vdf_paths)
        THEN StartGet([ k1 EXCEPT !.vdf = k.vdf + 1 ], vdf_paths[k.vdf + 1])
        ELSE Manifests(k1, 1, fs, dir)

\* Lines 158-162 once get_manifest returned vdf_result for vdf_paths[k.vdf].
AfterVdf(k, vdf_result, fs, dir) ==
    IF vdf_result # << >>
    THEN Manifests([ k EXCEPT !.collected_depots = @ \o vdf_result,
                              !.yielded = @ \cup { k.repo } ], 1, fs, dir)
    ELSE IF k.vdf < Len(vdf_paths)
         THEN StartGet([ k EXCEPT !.vdf = k.vdf + 1 ], vdf_paths[k.vdf + 1])
    ELSE Manifests(k, 1, fs, dir)

\* A variant: the exception of a key document is logged and not raised
\* again (line 126), the document counting as one without records.
get_manifest_LogsAndGoesOn(k, c, fs, dir) ==
    IF EndsWith(k.path, ManifestSuffix)
    THEN IF Truthy(c)
         THEN [ k EXCEPT !.pc = "write" ]
         ELSE Manifests([ k EXCEPT !.done[k.item] =
                                     IF c = None THEN "unavailable" ELSE "empty" ],
                        k.item + 1, fs, dir)
    ELSE IF Truthy(c)
         THEN LET x == KeyExtract(c.text)
              IN  AfterVdf(k, x.depots, fs, dir)
         ELSE AfterVdf(k, << >>, fs, dir)

\* A variant: a manifest that is unavailable ends the loop over the tree.
get_manifest_StopsOnMiss(k, c, fs, dir) ==
    IF EndsWith(k.path, ManifestSuffix)
    THEN IF Truthy(c)
         THEN [ k EXCEPT !.pc = "write" ]
         ELSE EndRepo([ k EXCEPT !.done[k.item] =
                                   IF c = None THEN "unavailable" ELSE "empty" ], dir)
    ELSE IF Truthy(c)
         THEN LET x == KeyExtract(c.text)
              IN  IF x.exc # "" THEN Raise(k, x.exc)
                  ELSE AfterVdf(k, x.depots, fs, dir)
         ELSE AfterVdf(k, << >>, fs, dir)

\* get_manifest once get returned c (lines 107-127), up to the next await.
get_manifest(k, c, fs, dir) ==
    IF EndsWith(k.path, ManifestSuffix)
    THEN IF Truthy(c)
         THEN [ k EXCEPT !.pc = "write" ]
         ELSE Manifests([ k EXCEPT !.done[k.item] =
                                     IF c = None THEN "unavailable" ELSE "empty" ],
                        k.item + 1, fs, dir)
    ELSE IF k.path \in { KeyVdf, ConfigVdf }
    THEN IF Truthy(c)
         THEN LET x == KeyExtract(c.text)
              IN  IF x.exc # "" THEN Raise(k, x.exc)
                  ELSE AfterVdf(k, x.depots, fs, dir)
         ELSE AfterVdf(k, << >>, fs, dir)
    ELSE k


---------------------------------------------------------------------------
(* Identifier normalisation (lines 132-133)                                *)

\* The characters str.strip() removes, as str.isspace() knows them. The
\* first row holds U+0009..U+000D (tab, line feed, vertical tab, form feed,
\* carriage return), the second U+001C..U+001F (the four separators) and
\* the blank; a character beyond U+007F is written by its code point.
Whitespace ==
    { "\t", "\n", "", "\f", "\r",
      "", "", "", "", " ",
      "U+0085", "U+00A0", "U+1680", "U+2000", "U+2001", "U+2002", "U+2003",
      "U+2004", "U+2005", "U+2006", "U+2007", "U+2008", "U+2009", "U+200A",
      "U+2028", "U+2029", "U+202F", "U+205F", "U+3000" }

RECURSIVE LStrip(_)
LStrip(s) ==
    IF s # << >> /\ Head(s) \in Whitespace THEN LStrip(Tail(s)) ELSE s

RECURSIVE RStrip(_)
RStrip(s) ==
    IF s # << >> /\ s[Len(s)] \in Whitespace
    THEN RStrip(SubSeq(s, 1, Len(s) - 1)) ELSE s

\* str.strip()
Strip(s) == RStrip(LStrip(s))

\* str.split(sep) for a one-character sep: Len = 1 + the number of seps.
RECURSIVE Split(_, _)
Split(s, sep) ==
    IF \A i \in 1..Len(s) : s[i] # sep THEN << s >>
    ELSE LET i == CHOOSE j \in 1..Len(s) :
                    s[j] = sep /\ \A h \in 1..(j - 1) : s[h] # sep
         IN  << SubSeq(s, 1, i - 1) >> \o Split(SubSeq(s, i + 1, Len(s)), sep)

\* str.isdecimal(): at least one character, all of them decimal digits.
IsDecimal(s) == s # << >> /\ \A i \in 1..Len(s) : s[i] \in Digits

\* A variant of app_id_list: the segments are not filtered.
app_id_list_NoFilter(a) == Split(Strip(a), "-")

\* list(filter(str.isdecimal, app_id.strip().split('-')))
app_id_list(a) == SelectSeq(Split(Strip(a), "-"), IsDecimal)

\* f'[{app_id}]{game_name}'
SaveDir(a, g) == << "[" >> \o a \o << "]" >> \o g

---------------------------------------------------------------------------
(* The script (lines 182-197)                                              *)

RECURSIVE Join(_, _)
\* sep.join(lines)
Join(lines, sep) ==
    IF lines = << >> THEN << >>
    ELSE IF Len(lines) = 1 THEN lines[1]
    ELSE lines[1] \o sep \o Join(Tail(lines), sep)

RECURSIVE Concat(_)
Concat(ss) == IF ss = << >> THEN << >> ELSE Head(ss) \o Concat(Tail(ss))

AddAppId(a) == << "a", "d", "d", "a", "p", "p", "i", "d", "(" >> \o a \o << ")" >>

AddDepot(d, key) ==
    << "a", "d", "d", "a", "p", "p", "i", "d", "(" >> \o d
      \o << ",", "1", ",", "\"" >> \o key \o << "\"", ")" >>

SetManifestId(d, m) ==
    << "s", "e", "t", "M", "a", "n", "i", "f", "e", "s", "t", "i", "d", "(" >>
      \o d \o << ",", "\"" >> \o m \o << "\"", ",", "0", ")" >>

\* Line 192: the names of the listing that belong to depot_id, in its order.
manifest_files(depot_id, listing) ==
    LET Mine(f) == /\ StartsWith(f, depot_id \o << "_" >>)
                   /\ EndsWith(f, ManifestSuffix)
    IN  SelectSeq(listing, Mine)

\* A variant of manifest_id: the slice starts one character early.
manifest_id_FromUnderscore(depot_id, f) ==
    SubSeq(f, Len(depot_id) + 1, Len(f) - Len(ManifestSuffix))

\* Line 194: manifest_file[len(depot_id) + 1:-len(".manifest")]
manifest_id(depot_id, f) ==
    SubSeq(f, Len(depot_id) + 2, Len(f) - Len(ManifestSuffix))

\* Lines 188-195 for one depot record.
DepotLines(rec, listing) ==
    LET fs == manifest_files(rec[1], listing)
    IN  << AddDepot(rec[1], rec[2]) >>
          \o [ i \in 1..Len(fs) |-> SetManifestId(rec[1], manifest_id(rec[1], fs[i])) ]

\* lua_lines (lines 183-195); listing is os.listdir(save_dir).
lua_lines(depot_info, a, listing) ==
    << AddAppId(a) >>
      \o Concat([ i \in 1..Len(depot_info) |-> DepotLines(depot_info[i], listing) ])

parse_vdf_to_lua(depot_info, a, listing) ==
    Join(lua_lines(depot_info, a, listing), << "\n" >>)

\* os.listdir returns the names in an order it does not specify.
Listings(S) ==
    { l \in [ 1..Cardinality(S) -> S ] : \A i, j \in 1..Len(l) : i # j => l[i] # l[j] }

\* f'{appid}.lua'
LuaName(a) == a \o << ".", "l", "u", "a" >>

ScriptFile(name, text) ==
    [ kind |-> "text", of |-> 0, name |-> name, text |-> NoText, chars |-> text ]


---------------------------------------------------------------------------
(* The run: main -> download_and_process -> get_manifest -> get            *)

Init ==
    /\ pc = "start"
    /\ exc = ""
    /\ app_id \in AppIds
    /\ appid = app_id
    /\ save_dir = << >>
    /\ files \in { [ n \in S |-> OldBytes(n) ] : S \in SUBSET ManifestNames }
    /\ repo = 0
    /\ tree = << >>
    /\ item = 0
    /\ vdf = 0
    /\ collected_depots = << >>
    /\ path = << >>
    /\ retry = 0
    /\ url = 0
    /\ content = None
    /\ buffer = None
    /\ result = NoResult
    /\ log = << >>
    /\ queried = << >>
    /\ requested = { }
    /\ written = { }
    /\ resp = NoResp
    /\ done = << >>
    /\ yielded = { }
    /\ lua_script = << >>

\* Lines 132-137: the canonical identifier and the directory; then the
\* first iteration of the loop over repos begins.
Start ==
    /\ pc = "start"
    /\ LET ids == app_id_list(app_id)
       IN  IF ids = << >>
           THEN /\ Set(Raise(Ctl, "IndexError"))
                /\ UNCHANGED << app_id, save_dir >>
           ELSE /\ app_id' = ids[1]
                /\ save_dir' = SaveDir(ids[1], GameName)
                /\ Set([ Ctl EXCEPT !.pc = "branch", !.repo = 1 ])
    /\ UNCHANGED << buffer, files, retry, url, content, appid, lua_script, log, queried, written, resp >>

\* f'https://api.github.com/repos/{repo}/branches/{app_id}' (line 142)
BranchUrl(r, a) == << "https://api.github.com/repos/", repos[r], "/branches/" >> \o a

\* Lines 143-150: the branch of the repository named by app_id is asked for.
\* An answer without 'commit' ends the iteration (line 175); an error of
\* the session is caught nowhere.
BranchQuery ==
    /\ pc = "branch"
    /\ \E kind \in { "commit", "nocommit", "ClientError" } :
         /\ resp' = [ op |-> "branch", kind |-> kind, body |-> None ]
         /\ CASE kind = "commit" -> Set([ Ctl EXCEPT !.pc = "tree" ])
              [] kind = "nocommit" -> Set(NextRepo(Ctl, save_dir))
              [] OTHER -> Set(Raise(Ctl, kind))
    /\ queried' = Append(queried, repo)
    /\ log' = Append(log, BranchUrl(repo, app_id))
    /\ UNCHANGED << buffer, app_id, save_dir, files, retry, url, content, appid, lua_script, written >>

\* Lines 151-159: the tree of the commit is asked for. With a 'tree' the
\* iteration starts with collected_depots = [] and the first key file.
TreeQuery ==
    /\ pc = "tree"
    /\ \E kind \in { "tree", "notree", "ClientError" } :
         /\ resp' = [ op |-> "tree", kind |-> kind, body |-> None ]
         /\ CASE kind = "tree" ->
                   \E tr \in Trees :
                     Set(StartGet([ Ctl EXCEPT !.tree = tr,
                                               !.collected_depots = << >>,
                                               !.vdf = 1,
                                               !.done = [ i \in 1..Len(tr) |-> "todo" ] ],
                                  vdf_paths[1]))
              [] kind = "notree" -> Set(NextRepo(Ctl, save_dir))
              [] OTHER -> Set(Raise(Ctl, kind))
    /\ UNCHANGED << buffer, app_id, save_dir, files, retry, url, content, appid, lua_script, log,
                    queried, written >>

\* One call of get (lines 70-93) under a schedule of responses, and what
\* follows in get_manifest and download_and_process until the next await.
Fetch ==
    /\ pc = "get"
    /\ \E s \in Schedules(repo, path) :
         LET o == GetRun(RetryInit, 1, s, 1)
             k0 == [ Ctl EXCEPT !.requested = @ \cup { path } ]
         IN  /\ resp' = o.last
             /\ IF o.state = "return"
                THEN LET k == get_manifest(k0, o.value, files, save_dir)
                     IN  /\ Set(k)
                         /\ content' = IF k.pc = "write" THEN o.value ELSE None
                ELSE /\ Set(Raise(k0, o.last.kind))
                     /\ content' = None
    /\ UNCHANGED << buffer, app_id, save_dir, files, retry, url, appid, lua_script, log, queried,
                    written >>

\* Line 111: aiofiles.open(save_path, 'wb') makes the file, without bytes.
OpenManifest ==
    /\ pc = "write"
    /\ pc' = "opened"
    /\ files' = (path :> EmptyFile(repo, path)) @@ files
    /\ written' = written \cup { path }
    /\ UNCHANGED << exc, app_id, save_dir, repo, tree, item, vdf, collected_depots,
                    path, retry, url, content, buffer, result, appid, lua_script,
                    log, queried, requested, resp, done, yielded >>

\* Line 112: f.write(content) hands the bytes to the buffered file: when it
\* returns they are in the file or still in its buffer.
WriteManifest ==
    /\ pc = "opened"
    /\ pc' = "close"
    /\ \/ files' = (path :> content) @@ files /\ buffer' = None
       \/ files' = files /\ buffer' = content
    /\ UNCHANGED << exc, app_id, save_dir, repo, tree, item, vdf, collected_depots,
                    path, retry, url, content, result, appid, lua_script, log,
                    queried, requested, written, resp, done, yielded >>

\* The end of the `async with` of line 111: the file is closed, with the
\* content in it; then the loop over the tree goes on.
CloseManifest ==
    /\ pc = "close"
    /\ files' = (path :> content) @@ files
    /\ buffer' = None
    /\ resp' = [ op |-> "write", kind |-> "ok", body |-> None ]
    /\ content' = None
    /\ Set(Manifests([ Ctl EXCEPT !.done[item] = "persisted" ], item + 1,
                     (path :> content) @@ files, save_dir))
    /\ UNCHANGED << app_id, save_dir, retry, url, appid, lua_script, log, queried,
                    written >>

\* The places of the save of lines 111-112: before the open, between the
\* open and the write, between the write and the close.
SavePlaces == { "write", "opened", "close" }

\* What an interrupt at a place of the save leaves: the directory and the
\* bytes in the buffer of a file object that was not closed.
\*  - While the open is awaited the file is made or is not.
\*  - While the write is awaited the bytes were not written, or are in the
\*    buffer of the file left open, or are in the file.
\*  - After the write the file is left open as it is, or the close on the
\*    way out of the `async with` puts the content in it.
InterruptedWrite(at, fs, bf, r, p, c) ==
    CASE at = "write" ->
            { [ files |-> fs, buffer |-> None ],
              [ files |-> (p :> EmptyFile(r, p)) @@ fs, buffer |-> None ] }
      [] at = "opened" ->
            { [ files |-> fs, buffer |-> None ],
              [ files |-> fs, buffer |-> c ],
              [ files |-> (p :> c) @@ fs, buffer |-> None ] }
      [] at = "close" ->
            { [ files |-> fs, buffer |-> bf ],
              [ files |-> (p :> c) @@ fs, buffer |-> None ] }
      [] OTHER -> { [ files |-> fs, buffer |-> bf ] }

\* The user interrupts the task while it waits for the network or the
\* disk (inside get the interrupt is a response of the schedule): nothing
\* on the way out handles it (lines 122-123). The branch query that was
\* awaited had been made (line 145), and a manifest being saved stays as
\* far as the save had come.
Interrupt ==
    /\ pc \in { "branch", "tree" } \cup SavePlaces
    /\ Set(Raise(Ctl, "KeyboardInterrupt"))
    /\ content' = None
    /\ resp' = [ op |-> IF pc \in SavePlaces THEN "write" ELSE pc,
                 kind |-> "KeyboardInterrupt", body |-> None ]
    /\ \E o \in InterruptedWrite(pc, files, buffer, repo, path, content) :
         /\ files' = o.files
         /\ buffer' = o.buffer
    /\ written' = written \cup ( DOMAIN files' \ DOMAIN files )
    /\ IF pc = "branch"
       THEN /\ queried' = Append(queried, repo)
            /\ log' = Append(log, BranchUrl(repo, app_id))
       ELSE UNCHANGED << queried, log >>
    /\ UNCHANGED << app_id, save_dir, retry, url, appid, lua_script >>

\* The KeyboardInterrupt has left main with the file object of line 111
\* not closed: when the process ends the object is finalised and the
\* bytes in its buffer reach the file.
FlushAtExit ==
    /\ pc = "raised"
    /\ buffer # None
    /\ files' = (path :> buffer) @@ files
    /\ buffer' = None
    /\ UNCHANGED << pc, exc, app_id, save_dir, repo, tree, item, vdf,
                    collected_depots, path, retry, url, content, result, appid,
                    lua_script, log, queried, requested, written, resp, done,
                    yielded >>

\* A variant: the script is written whatever was collected (line 224).
MainScript_Always ==
    /\ pc = "returned"
    /\ pc' = "exit"
    /\ \E listing \in Listings(DOMAIN files) :
         /\ lua_script' = parse_vdf_to_lua(result.depots, appid, listing)
         /\ files' = (LuaName(appid) :> ScriptFile(LuaName(appid), lua_script'))
                      @@ files
    /\ UNCHANGED << buffer, exc, app_id, save_dir, repo, tree, item, vdf, collected_depots,
                    path, retry, url, content, result, appid, log, queried,
                    requested, written, resp, done, yielded >>

\* Lines 221-230: main writes the script when depots were collected.
MainScript ==
    /\ pc = "returned"
    /\ pc' = "exit"
    /\ IF result.depots # << >>
       THEN \E listing \in Listings(DOMAIN files) :
              /\ lua_script' = parse_vdf_to_lua(result.depots, appid, listing)
              /\ files' = (LuaName(appid) :> ScriptFile(LuaName(appid), lua_script'))
                           @@ files
       ELSE UNCHANGED << files, lua_script >>
    /\ UNCHANGED << buffer, exc, app_id, save_dir, repo, tree, item, vdf, collected_depots,
                    path, retry, url, content, result, appid, log, queried,
                    requested, written, resp, done, yielded >>

Next ==
    \/ Start
    \/ BranchQuery
    \/ TreeQuery
    \/ Fetch
    \/ OpenManifest
    \/ WriteManifest
    \/ CloseManifest
    \/ Interrupt
    \/ FlushAtExit
    \/ MainScript

Spec == Init /\ [][Next]_vars

\* The run under its scheduler: asyncio.run drives the one task until it
\* is done, and every request made is answered (by a response or by an
\* exception), so a step that can be taken is taken.
SpecLive == Init /\ [][Next]_vars /\ WF_vars(Next)

---------------------------------------------------------------------------
(* The identifier: download_and_process up to its branch queries           *)

MaxIdLen == 3

\* What download_and_process may be given as app_id: digits (one of them
\* the Arabic-Indic three), the separator, a letter, a blank and a carriage
\* return, in any order.
NormAppIds ==
    UNION { [ 1..n -> { "4", "0", "U+0663", "-", "a", " ", "\r" } ] :
              n \in 0..MaxIdLen }

\* main calls download_and_process(appid, game_name) (line 222).
InitNorm ==
    /\ pc = "start"
    /\ exc = ""
    /\ app_id \in NormAppIds
    /\ appid = app_id
    /\ save_dir = << >>
    /\ files = << >>
    /\ repo = 0
    /\ tree = << >>
    /\ item = 0
    /\ vdf = 0
    /\ collected_depots = << >>
    /\ path = << >>
    /\ retry = 0
    /\ url = 0
    /\ content = None
    /\ buffer = None
    /\ result = NoResult
    /\ log = << >>
    /\ queried = << >>
    /\ requested = { }
    /\ written = { }
    /\ resp = NoResp
    /\ done = << >>
    /\ yielded = { }
    /\ lua_script = << >>

NextNorm == Start \/ BranchQuery

SpecNorm == InitNorm /\ [][NextNorm]_vars

---------------------------------------------------------------------------
(* One call of get, request by request                                     *)

MaxCalls == 2

\* What a mirror may answer to one request of get(sha, path, repo): a 200
\* with the file, with other bytes or with no bytes, another status, an
\* aiohttp.ClientError, another exception, or the user's interrupt.
GetResponses ==
    { Response("ok", b) :
        b \in { EmptyBytes, ManifestBytes(1, Manifest1), ManifestBytes(2, Manifest1) } }
    \cup
    { Response(k, None) :
        k \in { "status", "ClientError", "TimeoutError", "KeyboardInterrupt" } }

\* get(sha, Manifest1, repos[1]) was called: retry = 3, the first url.
InitGet ==
    /\ pc = "request"
    /\ exc = ""
    /\ app_id \in AppIds
    /\ appid = app_id
    /\ save_dir = SaveDir(app_id, GameName)
    /\ files = << >>
    /\ repo = 1
    /\ tree = << Manifest1 >>
    /\ item = 1
    /\ vdf = 0
    /\ collected_depots = << >>
    /\ path = Manifest1
    /\ retry = RetryInit
    /\ url = 1
    /\ content = None
    /\ buffer = None
    /\ result = NoResult
    /\ log = << >>
    /\ queried = << 1 >>
    /\ requested = { }
    /\ written = { }
    /\ resp = NoResp
    /\ done = << "todo" >>
    /\ yielded = { }
    /\ lua_script = << >>

\* Lines 81-91 for one url of one round: the request, and what get does
\* with the response; the caller keeps what get returns in content.
MirrorRequest ==
    /\ pc = "request"
    /\ \E r \in GetResponses :
         LET g == get(retry, url, r)
         IN  /\ log' = Append(log, [ url |-> url, kind |-> r.kind, body |-> r.body ])
             /\ resp' = r
             /\ retry' = g.retry
             /\ url' = g.url
             /\ content' = g.value
             /\ pc' = CASE g.state = "loop" -> "request"
                        [] g.state = "return" -> "got"
                        [] OTHER -> "raised"
             /\ exc' = IF g.state = "raise" THEN r.kind ELSE exc
    /\ requested' = requested \cup { path }
    /\ UNCHANGED << buffer, app_id, save_dir, files, repo, tree, item, vdf, collected_depots,
                    path, result, appid, lua_script, queried, written, done, yielded >>

\* get returned, and its caller calls it again, for the same path in the
\* next repository: lines 71-78 run again, with retry = 3 and the first url.
NextCall ==
    /\ pc = "got"
    /\ repo < MaxCalls
    /\ pc' = "request"
    /\ repo' = repo + 1
    /\ queried' = Append(queried, repo + 1)
    /\ retry' = RetryInit
    /\ url' = 1
    /\ log' = << >>
    /\ content' = None
    /\ resp' = NoResp
    /\ requested' = { }
    /\ UNCHANGED << buffer, exc, app_id, save_dir, files, tree, item, vdf, collected_depots,
                    path, result, appid, lua_script, written, done, yielded >>

NextGet == MirrorRequest \/ NextCall

SpecGet == InitGet /\ [][NextGet]_vars

---------------------------------------------------------------------------
(* One call of parse_vdf_to_lua                                            *)

MaxRecords == 2

Id440 == << "4", "4", "0" >>

\* The identifiers main may pass on: it passes what the user typed.
GenAppIds == { Id440, << "7" >> }

Depot441 == << "4", "4", "1" >>

KeyAbc123 == << "a", "b", "c", "1", "2", "3" >>

\* Depot records: (depot_id, decryption_key), as KeyExtract gives them.
GenRecords ==
    { << Depot441, KeyAbc123 >>, << << "1" >>, KeyOf(1) >>, << << "4" >>, KeyOf(2) >> }

GenDepotInfos ==
    UNION { [ 1..n -> GenRecords ] : n \in 0..MaxRecords }

File441_123 == << "4", "4", "1", "_", "1", "2", "3", ".", "m", "a", "n", "i", "f", "e", "s", "t" >>

\* Names a directory may hold: three manifests of depot 441 (one with an
\* empty id), a name that only ends and a name that only starts as a
\* manifest of depot 441 does, and a manifest of depot 1.
GenNames ==
    { File441_123,
      << "4", "4", "1", "_", "9", ".", "m", "a", "n", "i", "f", "e", "s", "t" >>,
      << "4", "4", "1", "_", ".", "m", "a", "n", "i", "f", "e", "s", "t" >>,
      << "1", "4", "4", "1", "_", "5", ".", "m", "a", "n", "i", "f", "e", "s", "t" >>,
      << "4", "4", "1", "_", "6", ".", "m", "a", "n", "i", "f", "e", "s", "t", ".", "t", "m", "p" >>,
      Manifest1 }

\* main has the depot records and the directory as download_and_process
\* left them, and calls parse_vdf_to_lua (line 225).
InitGen ==
    /\ pc = "generate"
    /\ exc = ""
    /\ appid \in GenAppIds
    /\ app_id = appid
    /\ save_dir = SaveDir(app_id, GameName)
    /\ files \in { [ n \in S |-> Bytes(0, n, NoText) ] : S \in SUBSET GenNames }
    /\ repo = 0
    /\ tree = << >>
    /\ item = 0
    /\ vdf = 0
    /\ collected_depots \in GenDepotInfos
    /\ path = << >>
    /\ retry = 0
    /\ url = 0
    /\ content = None
    /\ buffer = None
    /\ result = NoResult
    /\ log = << >>
    /\ queried = << >>
    /\ requested = { }
    /\ written = { }
    /\ resp = NoResp
    /\ done = << >>
    /\ yielded = { }
    /\ lua_script = << >>

\* Line 225: lua_script = parse_vdf_to_lua(collected_depots, appid, save_dir)
Generate ==
    /\ pc = "generate"
    /\ pc' = "generated"
    /\ \E listing \in Listings(DOMAIN files) :
         lua_script' = parse_vdf_to_lua(collected_depots, appid, listing)
    /\ UNCHANGED << buffer, exc, app_id, save_dir, files, repo, tree, item, vdf,
                    collected_depots, path, retry, url, content, result, appid,
                    log, queried, requested, written, resp, done, yielded >>

NextGen == Generate

SpecGen == InitGen /\ [][NextGen]_vars

---------------------------------------------------------------------------
(* Properties of get, under SpecGet                                        *)

\* The fetch ends unavailable by a status other than 200 or by an
\* aiohttp.ClientError.
Failed(kind) == kind \in { "status", "ClientError" }

\* A mirror fails: it answers with a status other than 200, or the
\* transport fails, by an aiohttp.ClientError or by a timeout.
MirrorFails(kind) == kind \in { "status", "ClientError", "TimeoutError" }

\* C1. Mirror fallback: when the first N-1 mirrors of the first round answer
\* with a status other than 200 and the N-th (1 <= N <= 5) answers 200, get
\* returns at once, and what it returns is the body of that N-th response.
C1_MirrorFallback ==
    \A N \in 1..Len(url_list) :
        ( /\ Len(log) >= N
          /\ \A i \in 1..(N - 1) : log[i].kind = "status" /\ log[i].url = i
          /\ log[N].kind = "ok" /\ log[N].url = N )
        => /\ pc = "got"
           /\ Len(log) = N
           /\ content = log[N].body

\* The fifth mirror is the first to answer 200, with bytes.
C1_Witness ==
    /\ pc = "got"
    /\ Len(log) = Len(url_list)
    /\ \A i \in 1..(Len(url_list) - 1) : log[i].kind = "status"
    /\ log[Len(url_list)].kind = "ok"
    /\ content = ManifestBytes(2, Manifest1)

\* C2. Retry exhaustion: while every mirror fails (by a status other than
\* 200 or by an error of the transport) get raises nothing and goes on, and
\* after the failure of all 3 * 5 requests it returns None.
C2_RetryExhaustion ==
    ( \A i \in 1..Len(log) : MirrorFails(log[i].kind) )
    => /\ pc # "raised"
       /\ exc = ""
       /\ Len(log) <= RetryInit * Len(url_list)
       /\ Len(log) < RetryInit * Len(url_list) => pc = "request"
       /\ Len(log) = RetryInit * Len(url_list) => pc = "got" /\ content = None

\* C11. In one call of get the i-th request goes to the mirror that the
\* fixed order gives it, in at most 3 rounds, so at most 15 requests are
\* made; a status other than 200 and an error of the transport only move
\* get to the next mirror, the next round beginning after the fifth; no
\* request follows the first 200; and every call begins with 3 rounds and
\* the first mirror, whatever the calls before it used up.
C11_RoundsAndOrder ==
    LET N == Len(url_list)
    IN  /\ Len(log) <= RetryInit * N
        /\ \A i \in 1..Len(log) : log[i].url = ((i - 1) % N) + 1
        /\ \A i \in 1..(Len(log) - 1) : log[i].kind # "ok"
        /\ pc = "request"
             => /\ retry = RetryInit - (Len(log) \div N)
                /\ url = (Len(log) % N) + 1
                /\ retry > 0
        /\ ( /\ \A i \in 1..Len(log) : MirrorFails(log[i].kind)
             /\ Len(log) < RetryInit * N ) => pc = "request"
        /\ log = << >> => pc = "request" /\ retry = RetryInit /\ url = 1

---------------------------------------------------------------------------
(* Properties of parse_vdf_to_lua, under SpecGen                           *)

\* The manifest ids m for which the directory holds the file d_m.manifest.
ManifestIdsOf(d) ==
    { m \in UNION { { SubSeq(f, i, j) : i \in 1..(Len(f) + 1), j \in 0..Len(f) } :
                    f \in DOMAIN files } :
        (d \o << "_" >> \o m \o ManifestSuffix) \in DOMAIN files }

\* The line at which the block of the i-th depot record has to begin.
RECURSIVE BlockStart(_)
BlockStart(i) ==
    IF i = 1 THEN 2
    ELSE BlockStart(i - 1) + 1
           + Cardinality(ManifestIdsOf(collected_depots[i - 1][1]))

\* C7. The script is exactly: the line addappid(<identifier>); then, for
\* each depot record in order, the line addappid(<depot-id>,1,"<key>")
\* followed at once by one line setManifestid(<depot-id>,"<manifest-id>",0)
\* for each file of the directory named <depot-id>_<manifest-id>.manifest,
\* and no other line. For the identifier 440, the one record (441, abc123)
\* and the one manifest 441_123.manifest of that depot it is the three lines
\* addappid(440), addappid(441,1,"abc123"), setManifestid(441,"123",0).
C7_ScriptLines ==
    pc = "generated" =>
      LET L == Split(lua_script, "\n")
          n == Len(collected_depots)
      IN  /\ Len(L) = BlockStart(n + 1) - 1
          /\ L[1] = AddAppId(appid)
          /\ \A i \in 1..n :
               LET d == collected_depots[i][1]
                   b == BlockStart(i)
                   e == BlockStart(i + 1) - 1
               IN  /\ L[b] = AddDepot(d, collected_depots[i][2])
                   /\ { L[h] : h \in (b + 1)..e }
                        = { SetManifestId(d, m) : m \in ManifestIdsOf(d) }
          /\ ( /\ appid = Id440
               /\ collected_depots = << << Depot441, KeyAbc123 >> >>
               /\ ManifestIdsOf(Depot441) = { << "1", "2", "3" >> } )
             => lua_script =
                  << "a", "d", "d", "a", "p", "p", "i", "d", "(", "4", "4", "0", ")" >>
                  \o << "\n" >> \o
                  << "a", "d", "d", "a", "p", "p", "i", "d", "(", "4", "4", "1", ",", "1", ",", "\"", "a", "b", "c", "1", "2", "3", "\"", ")" >>
                  \o << "\n" >> \o
                  << "s", "e", "t", "M", "a", "n", "i", "f", "e", "s", "t", "i", "d", "(", "4", "4", "1", ",", "\"", "1", "2", "3", "\"", ",", "0", ")" >>

\* A script for two records: depot 441 with several manifests in a
\* directory that also holds names that are no manifest of depot 441, then
\* depot 1 with its manifest.
C7_Witness ==
    /\ pc = "generated"
    /\ Len(collected_depots) = 2
    /\ collected_depots[1][1] = Depot441
    /\ collected_depots[2][1] = << "1" >>
    /\ Cardinality(ManifestIdsOf(Depot441)) >= 2
    /\ DOMAIN files = GenNames

---------------------------------------------------------------------------
(* Properties of the identifier, under SpecNorm                            *)

\* The segments i..j of s between separators that are decimal digits only.
DecimalSegments(s) ==
    { x \in (1..Len(s)) \X (1..Len(s)) :
        /\ x[1] <= x[2]
        /\ x[1] = 1 \/ s[x[1] - 1] = "-"
        /\ x[2] = Len(s) \/ s[x[2] + 1] = "-"
        /\ \A k \in x[1]..x[2] : s[k] \in Digits }

\* The run uses the first decimal segment of s as its identifier: the
\* directory is named with it and every branch query asks for it; when s
\* has no decimal segment the run ends with an error, and no directory was
\* made and nothing was queried.
UsesFirstDecimalSegment(s) ==
    LET segs == DecimalSegments(s)
    IN  IF segs = { }
        THEN /\ pc \in { "start", "raised" }
             /\ pc = "raised" => exc = "IndexError"
             /\ save_dir = << >>
             /\ queried = << >>
             /\ log = << >>
        ELSE pc # "start"
             => LET x == CHOOSE x \in segs : \A y \in segs : x[1] <= y[1]
                    c == SubSeq(s, x[1], x[2])
                IN  /\ exc # "IndexError"
                    /\ app_id = c
                    /\ save_dir = SaveDir(c, GameName)
                    /\ Len(log) = Len(queried)
                    /\ \A i \in 1..Len(log) : log[i] = BranchUrl(queried[i], c)

\* The statement of C19 as first made: the canonical identifier is the
\* first segment of the input as given, split at '-', that consists of
\* decimal digits only, and without such a segment retrieve ends with an
\* error before the directory is made or anything is queried.
C19_FirstSegmentOfInput == UsesFirstDecimalSegment(appid)

\* C19. The canonical identifier is the first segment of the input taken
\* without the whitespace around it, split at '-', that consists of
\* decimal digits only: the directory is named with it and every branch
\* query asks for it. Without such a segment retrieve ends with an error,
\* and no directory was made and nothing was queried.
C19_CanonicalIdentifier == UsesFirstDecimalSegment(Strip(appid))

\* For the input of a carriage return, the digit U+0663 and a separator
\* (an empty segment after it) the second repository is being asked for
\* the branch U+0663.
C19_Witness ==
    /\ appid = << "\r", "U+0663", "-" >>
    /\ app_id = << "U+0663" >>
    /\ pc = "tree"
    /\ repo = 2
    /\ Len(log) = 2
    /\ save_dir = SaveDir(<< "U+0663" >>, GameName)

---------------------------------------------------------------------------
(* Properties of the run, under Spec                                       *)

Last(q) == q[Len(q)]

UpTo(n) == [ i \in 1..n |-> i ]

Ended == pc \in { "returned", "exit" }

\* The statement of C3 as first made: when retrieve returns the depot
\* records of repository A, every file written in the run is A's.
C3_OnlyWinnersFiles ==
    ( Ended /\ result.depots # << >> )
    => /\ \A i \in 1..Len(result.depots) : result.depots[i][2] = KeyOf(repo)
       /\ \A n \in written : files[n].of = repo

\* C3. First match wins: from the moment a key file of repository A yields
\* depot records, no repository after A is queried; the records are A's and
\* they are what retrieve returns; no file of a later repository is
\* requested or written. (Manifests of repositories before A, which
\* resolved a tree and yielded no records, may have been written.)
C3_FirstMatchWins ==
    collected_depots # << >>
    => /\ pc \in { "get", "returned", "exit", "raised" } \cup SavePlaces
       /\ yielded = { repo }
       /\ queried = UpTo(repo)
       /\ \A i \in 1..Len(collected_depots) : collected_depots[i][2] = KeyOf(repo)
       /\ \A n \in written : files[n].of \in 1..repo
       /\ Ended => result.depots = collected_depots

\* Repository 2 wins after repository 1 had a tree and no key file: the
\* directory holds a manifest of each, and repositories 3 to 5 are not asked.
C3_Witness ==
    /\ pc = "returned"
    /\ repo = 2
    /\ result.depots # << >>
    /\ \E n, m \in written : files[n].of = 1 /\ files[m].of = 2

\* The depot records of a key document, in the order of its entries.
RecordsOf(t) == [ i \in 1..Len(t.depots) |-> << t.depots[i].id, t.depots[i].key >> ]

\* The response is a 200 with a key document that has depot entries, each
\* with its key.
Yields(r) ==
    /\ r.kind = "ok"
    /\ r.body.text.parse = "ok"
    /\ r.body.text.hasDepots
    /\ r.body.text.depots # << >>
    /\ \A i \in 1..Len(r.body.text.depots) : r.body.text.depots[i].hasKey

\* C12. In a repository Key.vdf is requested first, and config.vdf only
\* after a Key.vdf that gave no records (unavailable, empty, or without
\* entries). The records collected are those of the one key file that first
\* gave any, in the order of its entries: they are set once, from no
\* records, by the answer to a key file and by nothing else, and they are
\* what retrieve returns.
C12_KeyThenConfig ==
    [][ /\ ( pc = "tree" /\ pc' = "get" )
             => path' = KeyVdf /\ collected_depots' = << >>
        /\ ( pc' = "get" /\ path' = KeyVdf ) => pc = "tree"
        /\ ( pc' = "get" /\ path' = ConfigVdf )
             => /\ pc = "get" /\ path = KeyVdf /\ repo' = repo
                /\ ~Yields(resp')
                /\ collected_depots' = << >>
        /\ ( pc = "get" /\ path \in { KeyVdf, ConfigVdf } /\ Yields(resp') )
             => /\ collected_depots' = RecordsOf(resp'.body.text)
                /\ ~( pc' = "get" /\ path' \in { KeyVdf, ConfigVdf } )
        /\ collected_depots' # collected_depots
             => \/ pc = "tree" /\ collected_depots' = << >>
                \/ /\ pc = "get" /\ path \in { KeyVdf, ConfigVdf }
                   /\ Yields(resp')
                   /\ collected_depots = << >>
        /\ pc' = "returned" => result'.depots = collected_depots' ]_vars

\* config.vdf gave the two records that retrieve returned, after Key.vdf
\* gave none, and a manifest of the repository was written after it.
C12_Witness ==
    /\ pc = "returned"
    /\ vdf = 2
    /\ Len(result.depots) = 2
    /\ \E n \in written : files[n].of = repo

\* C13. While a key file of a repository is being requested, no manifest
\* of that repository has been requested or written; and when retrieve
\* returns records, every manifest entry of the winner's tree has been
\* processed: written, skipped because its file exists, or found
\* unavailable (no content).
C13_KeysBeforeManifests ==
    /\ ( pc = "get" /\ path \in { KeyVdf, ConfigVdf } )
         => /\ \A n \in requested : ~EndsWith(n, ManifestSuffix)
            /\ \A i \in 1..Len(done) : done[i] = "todo"
            /\ \A n \in written : files[n].of # repo
    /\ ( Ended /\ result.depots # << >> )
         => \A i \in 1..Len(tree) :
              IF EndsWith(tree[i], ManifestSuffix)
              THEN \/ /\ done[i] = "persisted"
                      /\ tree[i] \in written
                      /\ files[tree[i]] = ManifestBytes(repo, tree[i])
                   \/ /\ done[i] = "skipped"
                      /\ tree[i] \in DOMAIN files
                      /\ files[tree[i]].of # repo
                   \/ /\ done[i] \in { "unavailable", "empty" }
                      /\ tree[i] \notin DOMAIN files
              ELSE done[i] = "ignored"

\* The winner's tree lists the key file and a manifest: the manifest was
\* written before retrieve returned the records.
C13_Witness ==
    /\ pc = "returned"
    /\ result.depots # << >>
    /\ tree = << KeyVdf, Manifest1 >>
    /\ done = << "ignored", "persisted" >>

\* The statement of C15 as first made: when retrieve returns records of
\* repository R, every manifest written in the run was fetched from R.
C15_OnlyManifestsOfR ==
    ( pc = "returned" /\ result.depots # << >> )
    => \A n \in written : files[n] = ManifestBytes(repo, n)

\* C15. Every manifest written in the run is the file of its path in a
\* repository that was queried, and when retrieve returns it holds the
\* bytes fetched for that path; once a repository R has yielded
\* records no manifest of a repository after R is written, and R is the
\* repository whose records retrieve returns. (Manifests of repositories
\* before R, which resolved a tree and yielded no records, are written.)
C15_ManifestsUpToR ==
    /\ \A n \in written :
         \E r \in 1..Len(queried) :
           /\ files[n].of = queried[r]
           /\ files[n].name = n
           /\ Ended => files[n] = ManifestBytes(queried[r], n)
    /\ \A y \in yielded : \A n \in written : files[n].of <= y
    /\ ( Ended /\ result.depots # << >> ) => yielded = { repo }

\* The third repository yielded the records returned; the directory holds
\* a manifest written from the second, which had no key file, and one
\* written from the third.
C15_Witness ==
    /\ pc = "returned"
    /\ yielded = { 3 }
    /\ result.depots # << >>
    /\ written = ManifestNames
    /\ { files[n].of : n \in written } = { 2, 3 }

\* The manifest whose save (lines 111-112) has made the file and has not
\* closed it yet.
BeingSaved(n) == pc \in { "opened", "close" } /\ n = path

\* The manifest whose save an interrupt cut with its bytes in the buffer
\* of the file object, which is still open.
Unflushed(n) == pc = "raised" /\ buffer # None /\ n = path

\* C4. Idempotent re-entry: a manifest file that exists in the directory,
\* from an earlier run or from this one, is never requested from a mirror
\* again, whatever repository lists its path, and is left as it is (the
\* save that made a file of this run is what fills it, at the latest when
\* the process ends).
C4_IdempotentReentry ==
    /\ [](pc = "get" => path \notin DOMAIN files)
    /\ [][ \A n \in DOMAIN files :
             /\ n \in DOMAIN files'
             /\ n \notin written => files'[n] = files[n]
             /\ files'[n] = files[n] \/ BeingSaved(n) \/ Unflushed(n)
             /\ n \in requested' => n \in requested ]_vars

\* A repository after the first listed a manifest that an earlier run had
\* left in the directory: it was skipped, and the file is the old one.
C4_Witness ==
    /\ pc = "returned"
    /\ repo >= 2
    /\ \E i \in 1..Len(tree) :
         /\ done[i] = "skipped"
         /\ files[tree[i]] = OldBytes(tree[i])
         /\ tree[i] \notin requested

\* The directory is made before the first repository is queried, and a
\* file the run has made is in it.
DirectoryFirst ==
    /\ ( queried # << >> \/ pc \in { "branch", "tree", "get" } \cup SavePlaces )
         => save_dir = SaveDir(app_id, GameName)
    /\ \A n \in written : n \in DOMAIN files

\* The statement of C16 as first made: the directory is made before the
\* first repository is queried, and in every step, however the run ends,
\* each manifest file that exists stays in the directory with the content
\* it has (the save that has made a file fills it before it ends).
C16_ExistingNeverModified ==
    /\ []DirectoryFirst
    /\ [][ /\ \A n \in DOMAIN files :
                EndsWith(n, ManifestSuffix)
                  => /\ n \in DOMAIN files'
                     /\ files'[n] = files[n]
                          \/ ( BeingSaved(n) /\ files'[n] = content )
           /\ written \subseteq written'
           /\ save_dir # << >> => save_dir' = save_dir ]_vars

\* C16. The directory is made before the first repository is queried, and
\* in every step, however the run ends, each manifest file stays in the
\* directory, and one that was there before the run, or whose save has
\* ended, with the content it has. The file of a save is made empty and
\* filled by that save; when an interrupt cut the save before its close,
\* the bytes may reach the file after the run has ended.
C16_DirectoryOnlyGrows ==
    /\ []DirectoryFirst
    /\ [][ /\ \A n \in DOMAIN files :
                EndsWith(n, ManifestSuffix)
                  => /\ n \in DOMAIN files'
                     /\ n \notin written => files'[n] = files[n]
                     /\ \/ files'[n] = files[n]
                        \/ BeingSaved(n) /\ files'[n] = content
                        \/ /\ Unflushed(n)
                           /\ files[n] = EmptyFile(repo, n)
                           /\ files'[n] = buffer
                           /\ buffer = ManifestBytes(repo, n)
           /\ written \subseteq written'
           /\ save_dir # << >> => save_dir' = save_dir ]_vars

\* An interrupt has ended the run during the save of a manifest, next to
\* the one an earlier run had left: the file is empty and its bytes are
\* still in the buffer.
C16_Witness ==
    /\ pc = "raised"
    /\ exc = "KeyboardInterrupt"
    /\ Unflushed(path)
    /\ files[path] = EmptyFile(repo, path)
    /\ \E n \in DOMAIN files : n # path /\ files[n] = OldBytes(n)

\* C17. Termination: retrieve ends, with a result or with an error raised;
\* until then every repository is asked for its branch at most once and
\* for its tree at most once, every path is requested by at most one call
\* of get per repository, and a call of get makes at most 15 requests
\* whatever the mirrors answer.
C17_Termination ==
    /\ <>( pc \in { "returned", "raised" } )
    /\ [] ( /\ Len(queried) <= Len(repos)
            /\ \A i, j \in 1..Len(queried) : i # j => queried[i] # queried[j] )
    /\ [] ( pc = "get"
             => \A s \in Schedules(repo, path) :
                  GetRun(RetryInit, 1, s, 1).n <= RetryInit * Len(url_list) )
    /\ [][ /\ repo' >= repo
           /\ pc' = "branch" => repo' = repo + 1
           /\ pc' = "tree" => pc = "branch" /\ repo' = repo
           /\ pc = "get" => path \notin requested ]_vars

\* The longest run: each of the five repositories had a tree of two
\* manifests and no key file, and retrieve returned no records.
C17_Witness ==
    /\ pc = "returned"
    /\ result.depots = << >>
    /\ queried = UpTo(Len(repos))
    /\ Len(tree) = MaxTree
    /\ requested = ManifestNames \cup { KeyVdf, ConfigVdf }

\* C18. A file made by the run holds, once its save is over (closed, or
\* cut with nothing left in a buffer), the non-empty bytes fetched for its
\* path. After a 200 with an empty body
\* nothing is raised and nothing is saved: a manifest that came empty has
\* no file, and a key file that came empty gave no records.
C18_OnlyNonEmptyContent ==
    /\ \A n \in written :
         \/ BeingSaved(n)
         \/ Unflushed(n)
         \/ /\ files[n] # EmptyBytes
            /\ files[n].of \in 1..Len(repos)
            /\ files[n] = ManifestBytes(files[n].of, n)
    /\ \A i \in 1..Len(done) : done[i] = "empty" => tree[i] \notin DOMAIN files
    /\ ( resp.op = "mirror" /\ resp.kind = "ok" /\ resp.body = EmptyBytes )
         => /\ exc = ""
            /\ pc \notin SavePlaces \cup { "raised" }
            /\ content = None

\* C5. When no repository yielded depot records, retrieve returns an empty
\* list of records together with the directory, and main writes no script.
C5_NothingFound ==
    ( Ended /\ yielded = { } )
    => /\ result.depots = << >>
       /\ result.dir = SaveDir(app_id, GameName)
       /\ result.dir = save_dir
       /\ queried = UpTo(Len(repos))
       /\ lua_script = << >>
       /\ LuaName(appid) \notin DOMAIN files

\* No repository has a branch for the identifier: main has ended, without
\* a script.
C5_Witness ==
    /\ pc = "exit"
    /\ yielded = { }
    /\ Len(queried) = Len(repos)
    /\ resp = [ op |-> "branch", kind |-> "nocommit", body |-> None ]
    /\ written = { }

\* A key document that parses and has no "depots" section, or an entry of
\* it without a DecryptionKey.
Malformed(t) ==
    /\ t.parse = "ok"
    /\ \/ ~t.hasDepots
       \/ \E i \in 1..Len(t.depots) : ~t.depots[i].hasKey

\* C6. A malformed Key.vdf ends the run with a hard error, and at that
\* moment no manifest of the repository was requested or written.
C6_MalformedKeyIsFatal ==
    ( /\ resp.op = "mirror" /\ resp.kind = "ok"
      /\ resp.body # EmptyBytes
      /\ resp.body.name = KeyVdf
      /\ Malformed(resp.body.text) )
    => /\ pc = "raised"
       /\ exc = "KeyError"
       /\ \A n \in requested : ~EndsWith(n, ManifestSuffix)
       /\ \A n \in written : files[n].of # repo
       /\ \A i \in 1..Len(done) : done[i] = "todo"
       /\ result = NoResult

\* The Key.vdf of repository 2, whose tree lists a manifest, has an entry
\* with a key followed by one without.
C6_Witness ==
    /\ pc = "raised"
    /\ exc = "KeyError"
    /\ repo = 2
    /\ resp.body.name = KeyVdf
    /\ Len(resp.body.text.depots) = 2
    /\ resp.body.text.depots[1].hasKey
    /\ \E i \in 1..Len(tree) : EndsWith(tree[i], ManifestSuffix)

\* The response is a 200 with a key document that vdf.loads rejects, or
\* that has no "depots" section or an entry without a DecryptionKey.
BadKeyDocument(r) ==
    /\ r.kind = "ok"
    /\ r.body # EmptyBytes
    /\ \/ r.body.text.parse # "ok"
       \/ Malformed(r.body.text)

\* C14. Fail-fast: the answer to a key file that does not parse, or that is
\* malformed, ends the run in the same step with that error raised out of
\* retrieve: the other key file is not requested, no repository is queried,
\* nothing is written, retrieve returns nothing; no step follows a raised
\* parse error (the one step after a raised error is the flush of an
\* interrupted save, after a KeyboardInterrupt, which requests and queries
\* nothing), so nothing is retried, and no script is produced.
C14_FailFast ==
    /\ [] ( pc = "raised"
             => /\ result = NoResult
                /\ lua_script = << >>
                /\ LuaName(appid) \notin DOMAIN files )
    /\ [][ /\ pc = "raised"
                => /\ exc = "KeyboardInterrupt"
                   /\ UNCHANGED << pc, exc, requested, queried, log, result,
                                   lua_script, written >>
           /\ ( pc = "get" /\ path \in { KeyVdf, ConfigVdf } /\ BadKeyDocument(resp') )
                => /\ pc' = "raised"
                   /\ exc' = IF resp'.body.text.parse # "ok"
                             THEN resp'.body.text.parse ELSE "KeyError"
                   /\ path' = path /\ vdf' = vdf /\ repo' = repo
                   /\ requested' = requested \cup { path }
                   /\ queried' = queried
                   /\ files' = files /\ written' = written ]_vars

\* vdf.loads rejected the Key.vdf of the second repository: the run ended
\* there, config.vdf not requested.
C14_Witness ==
    /\ pc = "raised"
    /\ exc = "SyntaxError"
    /\ repo = 2
    /\ path = KeyVdf
    /\ requested = { KeyVdf }
    /\ queried = << 1, 2 >>

\* The step in which a user interruption arrives ends with the
\* KeyboardInterrupt raised, requests nothing, makes no script and queries
\* no repository but the one whose branch query it cut. The files stay as
\* they are; only the manifest that was being saved when the interrupt
\* arrived may be there, as far as its save had come.
InterruptStep ==
    resp'.kind = "KeyboardInterrupt"
    => /\ pc' = "raised"
       /\ exc' = "KeyboardInterrupt"
       /\ DOMAIN files \subseteq DOMAIN files'
       /\ \A n \in DOMAIN files' :
            \/ n \in DOMAIN files /\ files'[n] = files[n]
            \/ /\ pc \in SavePlaces
               /\ n = path
               /\ files'[n] \in { EmptyFile(repo, n), content }
       /\ written' = written \cup ( DOMAIN files' \ DOMAIN files )
       /\ requested' \subseteq requested \cup { path }
       /\ queried' = IF pc = "branch" THEN Append(queried, repo) ELSE queried
       /\ result' = NoResult
       /\ lua_script' = << >>

\* The statement of C8 as first made: a user interruption leaves the run
\* at once, and after it nothing is requested, queried or written: no step
\* follows the one in which it arrived.
C8_NothingAfterInterrupt ==
    [][ /\ exc # "KeyboardInterrupt"
        /\ resp.kind # "KeyboardInterrupt"
        /\ InterruptStep ]_vars

\* C8. A user interruption leaves the run at once, and after it nothing is
\* requested or queried, no script is made and no file is made or changed,
\* but for one step that may follow: the bytes that the save it cut had
\* given to the file, which was left open and empty, reach that file.
C8_InterruptPropagates ==
    [][ \/ /\ exc # "KeyboardInterrupt"
           /\ resp.kind # "KeyboardInterrupt"
           /\ InterruptStep
        \/ /\ exc = "KeyboardInterrupt"
           /\ resp = [ op |-> "write", kind |-> "KeyboardInterrupt", body |-> None ]
           /\ Unflushed(path)
           /\ files[path] = EmptyFile(repo, path)
           /\ buffer = ManifestBytes(repo, path)
           /\ files' = (path :> buffer) @@ files
           /\ buffer' = None
           /\ UNCHANGED << pc, exc, written, requested, queried, log, result,
                           lua_script, resp, repo, collected_depots >> ]_vars

\* The interrupt arrived after the bytes of the second manifest of a
\* repository had been given to its file: the run has ended, the file is
\* empty, and the first manifest is in the directory as it was written.
C8_Witness ==
    /\ exc = "KeyboardInterrupt"
    /\ resp.op = "write"
    /\ item = 2
    /\ done[1] = "persisted"
    /\ buffer = ManifestBytes(repo, path)
    /\ files[path] = EmptyFile(repo, path)
    /\ files[tree[1]] = ManifestBytes(repo, tree[1])

\* C9. A manifest whose fetch ends unavailable is no error: no file is
\* written for it, the entries after it are processed like the ones before,
\* and the records of the key file are what retrieve returns.
C9_UnavailableIsNotFatal ==
    /\ ( resp.op = "mirror" /\ Failed(resp.kind) ) => pc # "raised"
    /\ \A i \in 1..Len(done) :
         done[i] = "unavailable" => tree[i] \notin DOMAIN files
    /\ pc \in { "get" } \cup SavePlaces /\ item > 0
         => /\ \A i \in 1..(item - 1) : done[i] # "todo"
            /\ \A i \in item..Len(done) : done[i] = "todo"
    /\ ( Ended /\ yielded # { } )
         => /\ \A i \in 1..Len(done) : done[i] # "todo"
            /\ result.depots = collected_depots
            /\ result.depots # << >>

\* The first manifest of the winning repository was unavailable, the second
\* one was written, and the records were returned.
C9_Witness ==
    /\ pc = "returned"
    /\ done = << "unavailable", "persisted" >>
    /\ result.depots # << >>
    /\ Cardinality(DOMAIN files) = 1

\* C10. The repositories are queried in the order of the list, each at
\* most once. A branch answer without a commit and a tree answer without a
\* listing are no error: nothing of that repository is requested or written
\* and the next repository is queried, or retrieve returns the empty result
\* after the last one. Once a repository yielded records, no other is
\* queried.
C10_PriorityOrder ==
    /\ queried = UpTo(Len(queried))
    /\ Len(queried) <= Len(repos)
    /\ pc = "branch" => Len(queried) = repo - 1
    /\ pc \in { "tree", "get" } \cup SavePlaces => Len(queried) = repo
    /\ resp.kind \in { "nocommit", "notree" }
         => /\ exc = ""
            /\ requested = { }
            /\ \A n \in written : files[n].of # Last(queried)
            /\ \/ pc = "branch" /\ repo = Last(queried) + 1
               \/ Ended /\ Last(queried) = Len(repos) /\ result.depots = << >>
    /\ yielded # { } => yielded = { Last(queried) } /\ pc \notin { "branch", "tree" }

\* The first repository has no branch, the second no tree listing, and the
\* third is being queried.
C10_Witness ==
    /\ pc = "tree"
    /\ repo = 3
    /\ queried = << 1, 2, 3 >>
    /\ written = { }

===========================================================================
